---------------------------- MODULE Spec2Model ----------------------------
(***************************************************************************)
(* The OpenFx gateway (src/server.go): the FxGateway RPC handlers, the     *)
(* invocation path with its metrics notification, the periodic service     *)
(* watcher and the connection multiplexer set up by FxGateway.Start.       *)
(*                                                                         *)
(* The packages service, metrics and config that the handlers call are not *)
(* part of the source files at hand; the operators that stand for them     *)
(* (Service*, Notify, AddMetrics*, WatchServices) follow the written       *)
(* design of the gateway.  The handlers themselves follow src/server.go.   *)
(***************************************************************************)
EXTENDS Integers, Sequences, FiniteSets, TLC

(***************************************************************************)
(* Bounds of the model.                                                    *)
(***************************************************************************)
MaxCalls == 2          \* Invoke calls per behaviour (call slots 1..MaxCalls)
InvokeTimeout == 2     \* f.conf.InvokeTimeout, in clock steps
MaxReplicas == 2       \* largest replica count requested
MaxConns == 2          \* connections accepted per behaviour

(***************************************************************************)
(* Input domains.                                                          *)
(***************************************************************************)
Names == {"echo", "add"}
Images == {"v1", "v2"}
Outputs == {"hi", "yo"}
CallIds == 1..MaxCalls
ConnIds == 1..MaxConns
Replicas == 0..MaxReplicas

\* error values returned by the collaborators (nil = no error)
Nil == "nil"
ErrConflict == "conflict"
ErrNotFound == "not found"
ErrUnavailable == "backend unavailable"
ErrTimeout == "invocation timed out"
ErrFailed == "invocation failed"

\* outcome labels of the invocation counter
Labels == {"OK", "FAIL"}
NoGauge == -1

VARIABLES
    backend,         \* the orchestration backend: sequence of function records
    backendUp,       \* whether the orchestration backend answers
    metricsUp,       \* whether the metrics backend (Prometheus) answers
    metricsOptions,  \* f.metricsOptions: the process-wide metrics registry
    calls,           \* the Invoke calls: one record per call slot
    last,            \* what the last completed non-Invoke handler returned
    conns,           \* accepted connections and where the multiplexer put them
    grpcL,           \* connections delivered to the gRPC listener
    httpL,           \* connections delivered to the HTTP listener
    closed,          \* connections closed by the multiplexer
    proc             \* the gateway process and its three serve loops

vars == <<backend, backendUp, metricsUp, metricsOptions, calls, last,
          conns, grpcL, httpL, closed, proc>>

svcVars == <<backend, backendUp, metricsUp, metricsOptions, calls, last>>
muxVars == <<conns, grpcL, httpL, closed, proc>>


(***************************************************************************)
(* Values.                                                                 *)
(***************************************************************************)
\* a handler's reply: nil, a pb.Message, a pb.Function or a pb.Functions
NilReply == [kind |-> "nil", msg |-> "", fns |-> <<>>]
Message(m) == [kind |-> "msg", msg |-> m, fns |-> <<>>]
FunctionReply(fn) == [kind |-> "fn", msg |-> "", fns |-> <<fn>>]
FunctionsReply(fns) == [kind |-> "fns", msg |-> "", fns |-> fns]

IdleCall == [st |-> "idle", svc |-> "", elapsed |-> 0, cancelled |-> FALSE,
             sent |-> 0, sidecar |-> "none", out |-> "",
             reply |-> NilReply, err |-> Nil]

NoResult == [op |-> "none", name |-> "", reply |-> NilReply, err |-> Nil,
             called |-> {}]

NoConn == [st |-> "none", first |-> "", ctype |-> <<>>]

\* the leading bytes of a connection: its first token and, for an HTTP/2
\* connection, the value of the content-type header field of its first
\* HEADERS frame (<<>>: no such field), as a sequence of pieces
Firsts == {"PRI", "GET", "POST", "junk"}
ContentTypes == {<<>>, <<"application/grpc">>, <<"application/grpc", "+proto">>,
                 <<"application/json">>}

(***************************************************************************)
(* Sequences of function records.                                          *)
(***************************************************************************)
Has(b, n) == \E i \in 1..Len(b) : b[i].name = n
IndexOf(b, n) == CHOOSE i \in 1..Len(b) : b[i].name = n
Remove(b, n) == SelectSeq(b, LAMBDA fn : fn.name # n)
NamesOf(b) == [i \in 1..Len(b) |-> b[i].name]

(***************************************************************************)
(* The metrics registry (package metrics).                                 *)
(***************************************************************************)
\* MetricOptions.Notify: one counter increment, one histogram observation
Notify(m, svc, d, label) ==
    [m EXCEPT !.invocation[svc][label] = @ + 1,
              !.histogram[svc] = [n |-> @.n + 1, sum |-> @.sum + d]]

\* one pass of the service watcher: every function the backend lists gets its
\* replica gauge overwritten; a function it does not list is left alone, and
\* a failed listing updates nothing
WatchServices(m, b, up) ==
    IF ~up THEN m
    ELSE [m EXCEPT !.replicas =
            [n \in Names |-> IF Has(b, n) THEN b[IndexOf(b, n)].replicas
                             ELSE m.replicas[n]]]

\* AddMetricsFunction(s): the invocation count as the metrics backend reports
\* it; when the query fails the function is returned as it came
Enrich(fn, m, mup) ==
    IF mup THEN [fn EXCEPT !.invoked = m.invocation[fn.name]["OK"]] ELSE fn
AddMetricsFunction(fn, m, mup) == Enrich(fn, m, mup)
AddMetricsFunctions(fns, m, mup) == [i \in 1..Len(fns) |-> Enrich(fns[i], m, mup)]

(***************************************************************************)
(* The orchestration backend as package service drives it.  Each operator  *)
(* returns the error, the payload and the backend after the call.          *)
(***************************************************************************)
NewFunction(n, img) == [name |-> n, image |-> img, replicas |-> 1, invoked |-> 0]

ServiceDeploy(b, up, n, img) ==
    IF ~up THEN [err |-> ErrUnavailable, backend |-> b]
    ELSE IF Has(b, n) THEN [err |-> ErrConflict, backend |-> b]
    ELSE [err |-> Nil, backend |-> Append(b, NewFunction(n, img))]

ServiceDelete(b, up, n) ==
    IF ~up THEN [err |-> ErrUnavailable, backend |-> b]
    ELSE IF ~Has(b, n) THEN [err |-> ErrNotFound, backend |-> b]
    ELSE [err |-> Nil, backend |-> Remove(b, n)]

ServiceUpdate(b, up, n, img) ==
    IF ~up THEN [err |-> ErrUnavailable, backend |-> b]
    ELSE IF ~Has(b, n) THEN [err |-> ErrNotFound, backend |-> b]
    ELSE [err |-> Nil, backend |-> [b EXCEPT ![IndexOf(b, n)].image = img]]

ServiceReplicaUpdate(b, up, n, r) ==
    IF ~up THEN [err |-> ErrUnavailable, backend |-> b]
    ELSE IF ~Has(b, n) THEN [err |-> ErrNotFound, backend |-> b]
    ELSE [err |-> Nil, backend |-> [b EXCEPT ![IndexOf(b, n)].replicas = r]]

ServiceGetMeta(b, up, n) ==
    IF ~up THEN [err |-> ErrUnavailable, fns |-> <<>>]
    ELSE IF ~Has(b, n) THEN [err |-> ErrNotFound, fns |-> <<>>]
    ELSE [err |-> Nil, fns |-> <<b[IndexOf(b, n)]>>]

ServiceGetLog(b, up, n) ==
    IF ~up THEN [err |-> ErrUnavailable, msg |-> ""]
    ELSE IF ~Has(b, n) THEN [err |-> ErrNotFound, msg |-> ""]
    ELSE [err |-> Nil, msg |-> "log"]

ServiceList(b, up) ==
    IF ~up THEN [err |-> ErrUnavailable, fns |-> <<>>]
    ELSE [err |-> Nil, fns |-> b]

ServiceInfo(up) ==
    IF ~up THEN [err |-> ErrUnavailable, msg |-> ""]
    ELSE [err |-> Nil, msg |-> "version"]

\* service.Invoke: what the one call to the sidecar of svc can come back with
\* after `elapsed` clock steps.  The invoke timeout is a hard deadline: once
\* it has run out the only result is the timeout failure.
ServiceInvoke(b, svc, elapsed) ==
    IF elapsed >= InvokeTimeout
    THEN {[sidecar |-> "timeout", output |-> "", err |-> ErrTimeout]}
    ELSE {[sidecar |-> "fail", output |-> "", err |-> ErrFailed]}
         \cup (IF Has(b, svc)
               THEN {[sidecar |-> "ok", output |-> o, err |-> Nil] : o \in Outputs}
               ELSE {})

(***************************************************************************)
(* The RPC handlers of FxGateway (src/server.go).  Each operator is the    *)
(* handler's body after its call to the collaborator: what it returns and  *)
(* what it leaves behind.                                                  *)
(***************************************************************************)
\* Invoke with the notification moved before the error check
InvokeNotifyFirst(m, svc, r, end) ==
    IF r.err # Nil
    THEN [reply |-> NilReply, err |-> r.err, metrics |-> Notify(m, svc, end, "OK")]
    ELSE [reply |-> Message(r.output), err |-> Nil,
          metrics |-> Notify(m, svc, end, "OK")]

\* Invoke wrapping every error of service.Invoke into one error
InvokeOneError(m, svc, r, end) ==
    IF r.err # Nil
    THEN [reply |-> NilReply, err |-> ErrFailed, metrics |-> m]
    ELSE [reply |-> Message(r.output), err |-> Nil,
          metrics |-> Notify(m, svc, end, "OK")]

\* Invoke answering with the marker of the other handlers
InvokeFixedReply(m, svc, r, end) ==
    IF r.err # Nil
    THEN [reply |-> NilReply, err |-> r.err, metrics |-> m]
    ELSE [reply |-> Message("OK"), err |-> Nil,
          metrics |-> Notify(m, svc, end, "OK")]

\* r: what service.Invoke returned; end: the time the call took
Invoke(m, svc, r, end) ==
    IF r.err # Nil
    THEN [reply |-> NilReply, err |-> r.err, metrics |-> m]
    ELSE [reply |-> Message(r.output), err |-> Nil,
          metrics |-> Notify(m, svc, end, "OK")]

\* List failing when the metrics backend does not answer
ListNeedsMetrics(b, up, m, mup) ==
    LET r == ServiceList(b, up) IN
    IF r.err # Nil \/ ~mup
    THEN [reply |-> NilReply, err |-> ErrUnavailable]
    ELSE [reply |-> FunctionsReply(AddMetricsFunctions(r.fns, m, mup)), err |-> Nil]

List(b, up, m, mup) ==
    LET r == ServiceList(b, up) IN
    IF r.err # Nil
    THEN [reply |-> NilReply, err |-> r.err]
    ELSE [reply |-> FunctionsReply(AddMetricsFunctions(r.fns, m, mup)), err |-> Nil]

\* Deploy dropping the error of service.Deploy
DeployIgnoresError(b, up, n, img) ==
    LET r == ServiceDeploy(b, up, n, img) IN
    [reply |-> Message("OK"), err |-> Nil, backend |-> r.backend]

Deploy(b, up, n, img) ==
    LET r == ServiceDeploy(b, up, n, img) IN
    IF r.err # Nil
    THEN [reply |-> NilReply, err |-> r.err, backend |-> r.backend]
    ELSE [reply |-> Message("OK"), err |-> Nil, backend |-> r.backend]

\* Delete dropping the error of service.Delete
DeleteIgnoresError(b, up, n) ==
    LET r == ServiceDelete(b, up, n) IN
    [reply |-> Message("OK"), err |-> Nil, backend |-> r.backend]

Delete(b, up, n) ==
    LET r == ServiceDelete(b, up, n) IN
    IF r.err # Nil
    THEN [reply |-> NilReply, err |-> r.err, backend |-> r.backend]
    ELSE [reply |-> Message("OK"), err |-> Nil, backend |-> r.backend]

Update(b, up, n, img) ==
    LET r == ServiceUpdate(b, up, n, img) IN
    IF r.err # Nil
    THEN [reply |-> NilReply, err |-> r.err, backend |-> r.backend]
    ELSE [reply |-> Message("OK"), err |-> Nil, backend |-> r.backend]

\* GetMeta answering with an empty Function when service.GetMeta fails
GetMetaEmptyOnError(b, up, m, mup, n) ==
    LET r == ServiceGetMeta(b, up, n) IN
    IF r.err # Nil
    THEN [reply |-> FunctionReply([name |-> "", image |-> "", replicas |-> 0,
                                   invoked |-> 0]),
          err |-> Nil]
    ELSE [reply |-> FunctionReply(AddMetricsFunction(r.fns[1], m, mup)), err |-> Nil]

GetMeta(b, up, m, mup, n) ==
    LET r == ServiceGetMeta(b, up, n) IN
    IF r.err # Nil
    THEN [reply |-> NilReply, err |-> r.err]
    ELSE [reply |-> FunctionReply(AddMetricsFunction(r.fns[1], m, mup)), err |-> Nil]

GetLog(b, up, n) ==
    LET r == ServiceGetLog(b, up, n) IN
    IF r.err # Nil
    THEN [reply |-> NilReply, err |-> r.err]
    ELSE [reply |-> Message(r.msg), err |-> Nil]

ReplicaUpdate(b, up, n, k) ==
    LET r == ServiceReplicaUpdate(b, up, n, k) IN
    IF r.err # Nil
    THEN [reply |-> NilReply, err |-> r.err, backend |-> r.backend]
    ELSE [reply |-> Message("OK"), err |-> Nil, backend |-> r.backend]

\* Info putting the backend's error into the reply
InfoErrorInReply(up) ==
    LET r == ServiceInfo(up) IN
    IF r.err # Nil
    THEN [reply |-> Message(r.err), err |-> Nil]
    ELSE [reply |-> Message(r.msg), err |-> Nil]

Info(up) ==
    LET r == ServiceInfo(up) IN
    IF r.err # Nil
    THEN [reply |-> NilReply, err |-> r.err]
    ELSE [reply |-> Message(r.msg), err |-> Nil]

\* HealthCheck answering from the backend's Info
HealthCheckViaInfo(up) ==
    LET r == ServiceInfo(up) IN
    IF r.err # Nil
    THEN [reply |-> NilReply, err |-> r.err, called |-> {"service.Info"}]
    ELSE [reply |-> Message("OK"), err |-> Nil, called |-> {"service.Info"}]

\* no collaborator is called: `called` lists the backend operations used
HealthCheck(up) ==
    [reply |-> Message("OK"), err |-> Nil, called |-> {}]

Result(op, n, h, called) ==
    [op |-> op, name |-> n, reply |-> h.reply, err |-> h.err, called |-> called]

(***************************************************************************)
(* Initial state: nothing deployed, an empty registry, no call under way.  *)
(***************************************************************************)
BuildMetricsOptions ==
    [invocation |-> [n \in Names |-> [l \in Labels |-> 0]],
     histogram |-> [n \in Names |-> [n |-> 0, sum |-> 0]],
     replicas |-> [n \in Names |-> NoGauge]]

\* Start has been called: the accept loop of the multiplexer and the two
\* server goroutines run
Running ==
    [accept |-> "running", grpc |-> "running", http |-> "running", alive |-> TRUE]

Init ==
    /\ backend = <<>>
    /\ backendUp = TRUE
    /\ metricsUp = TRUE
    /\ metricsOptions = BuildMetricsOptions
    /\ calls = [c \in CallIds |-> IdleCall]
    /\ last = NoResult
    /\ conns = [i \in ConnIds |-> NoConn]
    /\ grpcL = {}
    /\ httpL = {}
    /\ closed = {}
    /\ proc = Running

(***************************************************************************)
(* Invoke.  The handler blocks in service.Invoke, so a call is two steps:  *)
(* issuing the sidecar call, and everything from its return to the         *)
(* handler's return.  Calls run concurrently, one per call slot.           *)
(***************************************************************************)
InvokeCall(c, svc) ==
    /\ proc.alive
    /\ calls[c].st = "idle"
    /\ \A d \in CallIds : d < c => calls[d].st # "idle"
    /\ calls' = [calls EXCEPT ![c] = [IdleCall EXCEPT !.st = "waiting",
                                                      !.svc = svc,
                                                      !.sent = 1]]
    /\ UNCHANGED <<backend, backendUp, metricsUp, metricsOptions, last, muxVars>>

\* the clock of one outstanding call advances, never beyond the timeout
Elapse(c) ==
    /\ proc.alive
    /\ calls[c].st = "waiting"
    /\ calls[c].elapsed < InvokeTimeout
    /\ calls' = [calls EXCEPT ![c].elapsed = @ + 1]
    /\ UNCHANGED <<backend, backendUp, metricsUp, metricsOptions, last, muxVars>>

\* the caller cancels before the invoke timeout has run out: the handler's
\* context c is done, and nothing else happens, since Invoke hands no
\* context to service.Invoke
Cancel(c) ==
    /\ proc.alive
    /\ calls[c].st = "waiting"
    /\ calls[c].elapsed < InvokeTimeout
    /\ ~calls[c].cancelled
    /\ calls' = [calls EXCEPT ![c].cancelled = TRUE]
    /\ UNCHANGED <<backend, backendUp, metricsUp, metricsOptions, last, muxVars>>

\* Invoke trying the sidecar a second time after a failed first call
InvokeReturnRetry(c) ==
    /\ proc.alive
    /\ calls[c].st = "waiting"
    /\ \E r \in ServiceInvoke(backend, calls[c].svc, calls[c].elapsed) :
         IF r.err # Nil /\ calls[c].sent < 2
         THEN /\ calls' = [calls EXCEPT ![c].sent = @ + 1]
              /\ metricsOptions' = metricsOptions
         ELSE LET h == Invoke(metricsOptions, calls[c].svc, r, calls[c].elapsed) IN
              /\ calls' = [calls EXCEPT ![c].st = "done",
                                        ![c].sidecar = r.sidecar,
                                        ![c].out = r.output,
                                        ![c].reply = h.reply,
                                        ![c].err = h.err]
              /\ metricsOptions' = h.metrics
    /\ UNCHANGED <<backend, backendUp, metricsUp, last, muxVars>>

\* Invoke calls behind one lock: a call returns only when no call that
\* started before it is still waiting
InvokeReturnSerialized(c) ==
    /\ proc.alive
    /\ calls[c].st = "waiting"
    /\ \A d \in CallIds : d < c => calls[d].st # "waiting"
    /\ \E r \in ServiceInvoke(backend, calls[c].svc, calls[c].elapsed) :
         LET h == Invoke(metricsOptions, calls[c].svc, r, calls[c].elapsed) IN
         /\ calls' = [calls EXCEPT ![c].st = "done",
                                   ![c].sidecar = r.sidecar,
                                   ![c].out = r.output,
                                   ![c].reply = h.reply,
                                   ![c].err = h.err]
         /\ metricsOptions' = h.metrics
    /\ UNCHANGED <<backend, backendUp, metricsUp, last, muxVars>>

InvokeReturn(c) ==
    /\ proc.alive
    /\ calls[c].st = "waiting"
    /\ \E r \in ServiceInvoke(backend, calls[c].svc, calls[c].elapsed) :
         LET h == Invoke(metricsOptions, calls[c].svc, r, calls[c].elapsed) IN
         /\ calls' = [calls EXCEPT ![c].st = "done",
                                   ![c].sidecar = r.sidecar,
                                   ![c].out = r.output,
                                   ![c].reply = h.reply,
                                   ![c].err = h.err]
         /\ metricsOptions' = h.metrics
    /\ UNCHANGED <<backend, backendUp, metricsUp, last, muxVars>>

(***************************************************************************)
(* The other handlers: one step each.                                      *)
(***************************************************************************)
ListRPC ==
    /\ proc.alive
    /\ last' = Result("List", "", List(backend, backendUp, metricsOptions, metricsUp),
                      {"service.List"})
    /\ UNCHANGED <<backend, backendUp, metricsUp, metricsOptions, calls, muxVars>>

DeployRPC(n, img) ==
    LET h == Deploy(backend, backendUp, n, img) IN
    /\ proc.alive
    /\ backend' = h.backend
    /\ last' = Result("Deploy", n, h, {"service.Deploy"})
    /\ UNCHANGED <<backendUp, metricsUp, metricsOptions, calls, muxVars>>

DeleteRPC(n) ==
    LET h == Delete(backend, backendUp, n) IN
    /\ proc.alive
    /\ backend' = h.backend
    /\ last' = Result("Delete", n, h, {"service.Delete"})
    /\ UNCHANGED <<backendUp, metricsUp, metricsOptions, calls, muxVars>>

UpdateRPC(n, img) ==
    LET h == Update(backend, backendUp, n, img) IN
    /\ proc.alive
    /\ backend' = h.backend
    /\ last' = Result("Update", n, h, {"service.Update"})
    /\ UNCHANGED <<backendUp, metricsUp, metricsOptions, calls, muxVars>>

GetMetaRPC(n) ==
    /\ proc.alive
    /\ last' = Result("GetMeta", n,
                      GetMeta(backend, backendUp, metricsOptions, metricsUp, n),
                      {"service.GetMeta"})
    /\ UNCHANGED <<backend, backendUp, metricsUp, metricsOptions, calls, muxVars>>

GetLogRPC(n) ==
    /\ proc.alive
    /\ last' = Result("GetLog", n, GetLog(backend, backendUp, n), {"service.GetLog"})
    /\ UNCHANGED <<backend, backendUp, metricsUp, metricsOptions, calls, muxVars>>

\* ReplicaUpdate setting the replica gauge itself once the backend has scaled
ReplicaUpdateSetsGauge(n, k) ==
    LET h == ReplicaUpdate(backend, backendUp, n, k) IN
    /\ proc.alive
    /\ backend' = h.backend
    /\ last' = Result("ReplicaUpdate", n, h, {"service.ReplicaUpdate"})
    /\ metricsOptions' = IF h.err = Nil
                         THEN [metricsOptions EXCEPT !.replicas[n] = k]
                         ELSE metricsOptions
    /\ UNCHANGED <<backendUp, metricsUp, calls, muxVars>>

ReplicaUpdateRPC(n, k) ==
    LET h == ReplicaUpdate(backend, backendUp, n, k) IN
    /\ proc.alive
    /\ backend' = h.backend
    /\ last' = Result("ReplicaUpdate", n, h, {"service.ReplicaUpdate"})
    /\ UNCHANGED <<backendUp, metricsUp, metricsOptions, calls, muxVars>>

InfoRPC ==
    /\ proc.alive
    /\ last' = Result("Info", "", Info(backendUp), {"service.Info"})
    /\ UNCHANGED <<backend, backendUp, metricsUp, metricsOptions, calls, muxVars>>

HealthCheckRPC ==
    LET h == HealthCheck(backendUp) IN
    /\ proc.alive
    /\ last' = Result("HealthCheck", "", h, h.called)
    /\ UNCHANGED <<backend, backendUp, metricsUp, metricsOptions, calls, muxVars>>

(***************************************************************************)
(* The service watcher started by Start, one pass per poll interval, and   *)
(* the collaborators going down and coming back.                           *)
(***************************************************************************)
\* Start without the call that starts the service watcher
WatcherNotStarted ==
    UNCHANGED vars

\* a watcher that takes the gauge of a function it does not find to be unset
WatcherTickPrunes ==
    /\ proc.alive
    /\ metricsOptions' =
         LET m == WatchServices(metricsOptions, backend, backendUp) IN
         [m EXCEPT !.replicas = [n \in Names |->
                                   IF backendUp /\ ~Has(backend, n) THEN NoGauge
                                   ELSE m.replicas[n]]]
    /\ UNCHANGED <<backend, backendUp, metricsUp, calls, last, muxVars>>

WatcherTick ==
    /\ proc.alive
    /\ metricsOptions' = WatchServices(metricsOptions, backend, backendUp)
    /\ UNCHANGED <<backend, backendUp, metricsUp, calls, last, muxVars>>

BackendFlip ==
    /\ backendUp' = ~backendUp
    /\ UNCHANGED <<backend, metricsUp, metricsOptions, calls, last, muxVars>>

MetricsFlip ==
    /\ metricsUp' = ~metricsUp
    /\ UNCHANGED <<backend, backendUp, metricsOptions, calls, last, muxVars>>

(***************************************************************************)
(* The connection multiplexer set up by Start: two listeners, matched in   *)
(* the order they were registered.                                         *)
(***************************************************************************)
HasPrefix(s, p) == Len(s) >= Len(p) /\ SubSeq(s, 1, Len(p)) = p

HTTP1Methods == {"OPTIONS", "GET", "HEAD", "POST", "PUT", "DELETE", "TRACE", "CONNECT"}

\* the matcher that wants the header field's value to be the given one
HTTP2MatchHeaderFieldSendSettings(c, prefix) ==
    c.first = "PRI" /\ c.ctype = prefix

\* the HTTP/2 client preface, then a header field content-type whose value
\* starts with the prefix
HTTP2MatchHeaderFieldPrefixSendSettings(c, prefix) ==
    c.first = "PRI" /\ HasPrefix(c.ctype, prefix)

\* the connection starts with the name of an HTTP/1 method
HTTP1Fast(c) == c.first \in HTTP1Methods

\* grpcL, registered first, and httpL
Matchers == <<"grpc", "http">>

\* the second listener registered with a matcher that takes anything
MatchesAny(l, c) ==
    IF l = "grpc" THEN HTTP2MatchHeaderFieldPrefixSendSettings(c, <<"application/grpc">>)
    ELSE TRUE

Matches(l, c) ==
    IF l = "grpc" THEN HTTP2MatchHeaderFieldPrefixSendSettings(c, <<"application/grpc">>)
    ELSE HTTP1Fast(c)

\* the listener of the first matcher that matches, "closed" when none does
Route(c) ==
    IF \E i \in 1..Len(Matchers) : Matches(Matchers[i], c)
    THEN Matchers[CHOOSE i \in 1..Len(Matchers) :
                     /\ Matches(Matchers[i], c)
                     /\ \A j \in 1..(i - 1) : ~Matches(Matchers[j], c)]
    ELSE "closed"

\* the accept loop takes a connection
Accept(i, first, ctype) ==
    /\ proc.alive
    /\ proc.accept = "running"
    /\ conns[i].st = "none"
    /\ \A j \in ConnIds : j < i => conns[j].st # "none"
    /\ conns' = [conns EXCEPT ![i] = [st |-> "accepted", first |-> first,
                                       ctype |-> ctype]]
    /\ UNCHANGED <<svcVars, grpcL, httpL, closed, proc>>

\* where a sniffed connection can end: with the listener of its matcher, and
\* once the accept loop has exited (the multiplexer is shutting down) the
\* hand-over races with the shutdown, which closes the connection
Deliveries(l) == IF proc.accept = "exited" THEN {l, "closed"} ELSE {l}

\* the multiplexer sniffs the connection and hands it on, or closes it
Serve(i) ==
    /\ proc.alive
    /\ conns[i].st = "accepted"
    /\ conns' = [conns EXCEPT ![i].st = "served"]
    /\ \E l \in Deliveries(Route(conns[i])) :
       /\ grpcL' = IF l = "grpc" THEN grpcL \cup {i} ELSE grpcL
       /\ httpL' = IF l = "http" THEN httpL \cup {i} ELSE httpL
       /\ closed' = IF l = "closed" THEN closed \cup {i} ELSE closed
    /\ UNCHANGED <<svcVars, proc>>

(***************************************************************************)
(* The process.  Start leaves two goroutines in the servers' Serve and     *)
(* stays in the multiplexer's Serve itself; main returns when Start does.  *)
(***************************************************************************)
\* log.Fatalln: the message, then os.Exit(1)
Fatalln(p) == [p EXCEPT !.alive = FALSE]

\* Start returns to main, which drops the error and returns
MainReturns(p) == [p EXCEPT !.alive = FALSE]

\* the connections the multiplexer has accepted and is still sniffing; no
\* read timeout is set on the multiplexer, so a connection stays here for as
\* long as its client sends nothing
Sniffing == {i \in ConnIds : conns[i].st = "accepted"}

\* tcpMux.Serve once its accept loop is over: it waits for the connections
\* it is sniffing, closes the listeners and returns the error to Start
MuxServeEnds(p) == IF Sniffing = {} THEN MainReturns(p) ELSE p

\* the listener's Accept fails: the accept loop of tcpMux.Serve is over
AcceptFails ==
    /\ proc.alive
    /\ proc.accept = "running"
    /\ proc' = MuxServeEnds([proc EXCEPT !.accept = "exited"])
    /\ UNCHANGED <<svcVars, conns, grpcL, httpL, closed>>

\* the last sniffed connection is through: tcpMux.Serve returns
MuxServeReturns ==
    /\ proc.alive
    /\ proc.accept = "exited"
    /\ Sniffing = {}
    /\ proc' = MainReturns(proc)
    /\ UNCHANGED <<svcVars, conns, grpcL, httpL, closed>>

\* f.grpcServer.Serve returns an error in its goroutine
GrpcServeFails ==
    /\ proc.alive
    /\ proc.grpc = "running"
    /\ proc' = Fatalln([proc EXCEPT !.grpc = "exited"])
    /\ UNCHANGED <<svcVars, conns, grpcL, httpL, closed>>

\* f.httpServer.Serve returns an error in its goroutine
HttpServeFails ==
    /\ proc.alive
    /\ proc.http = "running"
    /\ proc' = Fatalln([proc EXCEPT !.http = "exited"])
    /\ UNCHANGED <<svcVars, conns, grpcL, httpL, closed>>

(***************************************************************************)
(* Specifications.                                                         *)
(***************************************************************************)
InvokeNext ==
    \/ \E c \in CallIds, svc \in Names : InvokeCall(c, svc)
    \/ \E c \in CallIds : Elapse(c)
    \/ \E c \in CallIds : Cancel(c)
    \/ \E c \in CallIds : InvokeReturn(c)

HandlerNext ==
    \/ ListRPC
    \/ \E n \in Names, img \in Images : DeployRPC(n, img)
    \/ \E n \in Names : DeleteRPC(n)
    \/ \E n \in Names, img \in Images : UpdateRPC(n, img)
    \/ \E n \in Names : GetMetaRPC(n)
    \/ \E n \in Names : GetLogRPC(n)
    \/ \E n \in Names, k \in Replicas : ReplicaUpdateRPC(n, k)
    \/ InfoRPC
    \/ HealthCheckRPC

EnvNext ==
    \/ WatcherTick
    \/ BackendFlip
    \/ MetricsFlip

MuxNext ==
    \/ \E i \in ConnIds, first \in Firsts, ctype \in ContentTypes : Accept(i, first, ctype)
    \/ \E i \in ConnIds : Serve(i)

ProcNext ==
    \/ AcceptFails
    \/ MuxServeReturns
    \/ GrpcServeFails
    \/ HttpServeFails

Next == InvokeNext \/ HandlerNext \/ EnvNext \/ MuxNext \/ ProcNext

Spec == Init /\ [][Next]_vars

\* the invocation path: concurrent Invoke calls and the watcher, against
\* whatever the orchestration backend holds when the gateway starts
Deployments ==
    {b \in UNION {[1..k -> {NewFunction(n, "v1") : n \in Names}] :
                     k \in 0..Cardinality(Names)} :
        \A i, j \in 1..Len(b) : i # j => b[i].name # b[j].name}

InvocationInit ==
    /\ backend \in Deployments
    /\ backendUp = TRUE
    /\ metricsUp = TRUE
    /\ metricsOptions = BuildMetricsOptions
    /\ calls = [c \in CallIds |-> IdleCall]
    /\ last = NoResult
    /\ conns = [i \in ConnIds |-> NoConn]
    /\ grpcL = {}
    /\ httpL = {}
    /\ closed = {}
    /\ proc = Running

InvocationNext == InvokeNext \/ WatcherTick

InvocationSpec == InvocationInit /\ [][InvocationNext]_vars

\* the Invoke calls alone, with time passing: as long as some call is
\* outstanding, a clock advances or a pending service.Invoke returns
InvocationFairSpec ==
    /\ InvocationInit /\ [][InvokeNext]_vars
    /\ WF_vars(\E c \in CallIds : Elapse(c) \/ InvokeReturn(c))

\* the lifecycle handlers with their collaborators and the watcher
LifecycleSpec == Init /\ [][HandlerNext \/ EnvNext]_vars

\* the multiplexer alone
MuxSpec == Init /\ [][MuxNext]_vars

\* every writer of the metrics registry together: an Invoke call, the
\* lifecycle handlers and the watcher
WritersNext ==
    \/ \E svc \in Names : InvokeCall(1, svc)
    \/ InvokeReturn(1)
    \/ HandlerNext
    \/ WatcherTick

WritersSpec == Init /\ [][WritersNext]_vars

\* the multiplexer and the ways the three serve loops end
ProcessSpec == Init /\ [][MuxNext \/ ProcNext]_vars

(***************************************************************************)
(* Properties of the invocation path.                                      *)
(***************************************************************************)
\* the completed Invoke calls for function n whose sidecar call ended in one
\* of the ways in `how`
Completed(n, how) ==
    {c \in CallIds : calls[c].st = "done" /\ calls[c].svc = n /\ calls[c].sidecar \in how}

\* C1: every completed Invoke call is in the registry exactly once: the
\* counters of a function add up to its completed calls, and its failure
\* counter is the number of its calls whose sidecar call failed or timed out.
C1_EveryInvokeRecorded ==
    \A n \in Names :
        /\ metricsOptions.invocation[n]["FAIL"] = Cardinality(Completed(n, {"fail", "timeout"}))
        /\ metricsOptions.invocation[n]["OK"] + metricsOptions.invocation[n]["FAIL"]
             = Cardinality(Completed(n, {"ok", "fail", "timeout"}))

\* C2: the success counter of a function is the number of Invoke calls for
\* it that returned without error; a failed or timed-out call adds nothing.
C2_SuccessCounterCountsSuccesses ==
    \A n \in Names :
        metricsOptions.invocation[n]["OK"]
          = Cardinality({c \in CallIds : /\ calls[c].st = "done"
                                         /\ calls[c].svc = n
                                         /\ calls[c].err = Nil})

\* a function with one call that succeeded and one that timed out
C2_Witness ==
    \E c, d \in CallIds :
        /\ calls[c].st = "done" /\ calls[c].err = ErrTimeout
        /\ calls[d].st = "done" /\ calls[d].err = Nil
        /\ calls[c].svc = calls[d].svc

\* C3: a call whose caller cancelled it before the invoke timeout ran out is
\* aborted before the timeout: its sidecar call never lasts the full timeout.
C3_CancelAbortsSidecarCall ==
    \A c \in CallIds :
        calls[c].cancelled => calls[c].elapsed < InvokeTimeout

\* C4: every Invoke call returns, at the latest when its timeout has run out,
\* and the error it returns tells a timeout from a failure the sidecar
\* reported.
C4_ErrorTellsTimeout ==
    \A c \in CallIds :
        calls[c].st = "done" =>
            /\ calls[c].err = ErrTimeout <=> calls[c].sidecar = "timeout"
            /\ calls[c].err = ErrFailed <=> calls[c].sidecar = "fail"
            /\ calls[c].err = Nil <=> calls[c].sidecar = "ok"
            /\ calls[c].elapsed <= InvokeTimeout

C4_InvokeTerminates ==
    /\ []C4_ErrorTellsTimeout
    /\ \A c \in CallIds : (calls[c].st = "waiting") ~> (calls[c].st = "done")

\* one call timed out and another was failed by the sidecar
C4_Witness ==
    \E c, d \in CallIds :
        /\ calls[c].st = "done" /\ calls[c].err = ErrTimeout
        /\ calls[c].elapsed = InvokeTimeout
        /\ calls[d].st = "done" /\ calls[d].err = ErrFailed

(***************************************************************************)
(* Properties of the multiplexer.                                          *)
(***************************************************************************)
\* the RPC transport signature: HTTP/2 with a content-type header whose value
\* starts with application/grpc
RPCSignature(c) == c.first = "PRI" /\ Len(c.ctype) >= 1 /\ c.ctype[1] = "application/grpc"

\* the connection starts like an HTTP/1.x request
HTTP1Request(c) == c.first \in {"GET", "POST"}

C6_AtMostOneListener ==
    \A i \in ConnIds :
        /\ ~(i \in grpcL /\ i \in httpL)
        /\ i \in closed => (i \notin grpcL /\ i \notin httpL)
        /\ (conns[i].st = "served" /\ ~RPCSignature(conns[i]) /\ ~HTTP1Request(conns[i]))
               => i \in closed

\* a connection of neither protocol was closed, another one was handed on
C6_Witness ==
    \E i, j \in ConnIds :
        /\ conns[i].st = "served" /\ conns[i].first = "junk" /\ i \in closed
        /\ conns[j].st = "served" /\ j \in httpL

(***************************************************************************)
(* Properties of the lifecycle handlers.                                   *)
(***************************************************************************)
\* C7: HealthCheck replies "OK" without error whatever the state of the
\* backend, calls no backend operation, and its step changes neither the
\* backend nor the metrics registry.
C7_HealthCheckReply ==
    last.op = "HealthCheck" =>
        /\ last.reply = Message("OK")
        /\ last.err = Nil
        /\ last.called = {}

C7_HealthCheckAlwaysOK ==
    /\ []C7_HealthCheckReply
    /\ [][HealthCheckRPC => /\ last'.op = "HealthCheck"
                            /\ backend' = backend
                            /\ backendUp' = backendUp
                            /\ metricsOptions' = metricsOptions]_vars

\* HealthCheck has answered and the backend is down
C7_Witness == last.op = "HealthCheck" /\ last.reply = Message("OK") /\ ~backendUp

\* C8: a Deploy of a name the (reachable) backend already holds returns the
\* conflict error and no reply, and leaves the backend as it was.
C8_DeployExistingConflicts ==
    [][\A n \in Names, img \in Images :
         (DeployRPC(n, img) /\ backendUp /\ Has(backend, n))
            => /\ last'.op = "Deploy"
               /\ last'.err = ErrConflict
               /\ last'.reply = NilReply
               /\ backend' = backend]_vars

\* a Deploy was refused for a name that is deployed with another image
C8_Witness ==
    /\ last.op = "Deploy" /\ last.err = ErrConflict /\ last.reply = NilReply
    /\ Has(backend, last.name)
    /\ backend[IndexOf(backend, last.name)].image = "v2"

\* C9: a Delete of a name the (reachable) backend does not hold returns the
\* not-found error and no reply, and leaves the backend and the whole
\* metrics registry as they were.
C9_DeleteMissingNotFound ==
    [][\A n \in Names :
         (DeleteRPC(n) /\ backendUp /\ ~Has(backend, n))
            => /\ last'.op = "Delete"
               /\ last'.err = ErrNotFound
               /\ last'.reply = NilReply
               /\ backend' = backend
               /\ metricsOptions' = metricsOptions]_vars

\* a Delete was refused for a name whose replica gauge is still set
C9_Witness ==
    /\ last.op = "Delete" /\ last.err = ErrNotFound /\ last.reply = NilReply
    /\ ~Has(backend, last.name)
    /\ metricsOptions.replicas[last.name] # NoGauge

\* a function record without its metrics decoration
Plain(fn) == [fn EXCEPT !.invoked = 0]

\* C10: with the backend reachable, List returns without error every function
\* of the backend in the backend's order, and GetMeta of a deployed function
\* returns that function without error, whether or not the metrics backend
\* answers.
C10_ListSurvivesMetricsFailure ==
    [][/\ (ListRPC /\ backendUp)
           => /\ last'.err = Nil
              /\ last'.reply.kind = "fns"
              /\ Len(last'.reply.fns) = Len(backend)
              /\ \A i \in 1..Len(backend) : Plain(last'.reply.fns[i]) = Plain(backend[i])
       /\ \A n \in Names :
            (GetMetaRPC(n) /\ backendUp /\ Has(backend, n))
               => /\ last'.err = Nil
                  /\ last'.reply.kind = "fn"
                  /\ Plain(last'.reply.fns[1]) = Plain(backend[IndexOf(backend, n)])]_vars

\* List returned two functions while the metrics backend was down
C10_Witness ==
    /\ last.op = "List" /\ last.err = Nil /\ Len(last.reply.fns) = 2
    /\ last.reply.fns[1].name = "add"
    /\ ~metricsUp /\ backendUp

(***************************************************************************)
(* Properties of the watcher and the registry.                             *)
(***************************************************************************)
\* the replica count the backend holds for a deployed function
Count(b, n) == b[IndexOf(b, n)].replicas

\* a deployed function whose replica gauge is not its count at the backend
Stale(n) == Has(backend, n) /\ metricsOptions.replicas[n] # Count(backend, n)

\* C11: when the replica count of a function has changed at the backend
\* (which answers), a watcher tick is a step that changes the gauges, and
\* every step that changes a gauge leaves the gauge of each deployed function
\* at its current count: the tick after a ReplicaUpdate(name, n) sets the
\* gauge to n, and no step in between puts an older value back.
C11_TickPending ==
    (backendUp /\ \E n \in Names : Stale(n))
        => ENABLED (WatcherTick /\ metricsOptions'.replicas # metricsOptions.replicas)

C11_TickSetsGauge ==
    /\ []C11_TickPending
    /\ [][metricsOptions'.replicas # metricsOptions.replicas
            => \A n \in Names :
                 Has(backend, n) => metricsOptions'.replicas[n] = Count(backend, n)]_vars

\* a function was scaled to 2 and its gauge has followed
C11_Witness ==
    /\ last.op = "ReplicaUpdate" /\ last.err = Nil
    /\ Has(backend, last.name) /\ Count(backend, last.name) = 2
    /\ metricsOptions.replicas[last.name] = 2

\* C12: an Invoke call whose sidecar call succeeded returns, without error,
\* a message whose payload is what the sidecar put out, and the success
\* counter of a function has gone up by one for each such call (it is 1
\* after the first).
C12_SuccessfulInvoke ==
    /\ \A c \in CallIds :
         (calls[c].st = "done" /\ calls[c].sidecar = "ok")
            => /\ Has(backend, calls[c].svc)
               /\ calls[c].err = Nil
               /\ calls[c].reply.kind = "msg"
               /\ calls[c].reply.msg = calls[c].out
               /\ calls[c].out \in Outputs
    /\ \A n \in Names :
         metricsOptions.invocation[n]["OK"] = Cardinality(Completed(n, {"ok"}))

\* the first successful call of echo: the sidecar's output came back and the
\* counter is 1
C12_Witness ==
    \E c \in CallIds :
        /\ calls[c].st = "done" /\ calls[c].svc = "echo" /\ calls[c].sidecar = "ok"
        /\ calls[c].reply = Message("yo")
        /\ Completed("echo", {"ok"}) = {c}
        /\ metricsOptions.invocation["echo"]["OK"] = 1

\* C13: a Delete that returns success leaves the name out of the backend,
\* only a successful Deploy of that name brings it back, and as long as the
\* name is out every GetMeta of it fails and returns no Function, with the
\* not-found error when the backend answers.
C13_DeletedIsNotFound ==
    [][\A n \in Names :
         /\ (DeleteRPC(n) /\ last'.err = Nil) => ~Has(backend', n)
         /\ (~Has(backend, n) /\ Has(backend', n))
               => (last'.op = "Deploy" /\ last'.name = n /\ last'.err = Nil)
         /\ (GetMetaRPC(n) /\ ~Has(backend, n))
               => /\ last'.op = "GetMeta"
                  /\ last'.reply = NilReply
                  /\ last'.err # Nil
                  /\ backendUp => last'.err = ErrNotFound]_vars

\* GetMeta was refused for a function that had been deployed, seen by the
\* watcher and deleted
C13_Witness ==
    /\ last.op = "GetMeta" /\ last.err = ErrNotFound /\ last.reply = NilReply
    /\ ~Has(backend, last.name)
    /\ metricsOptions.replicas[last.name] # NoGauge
    /\ backendUp

\* what a handler returned is faithful to the error e of its backend call:
\* the error is handed on as it is, a reply of the right kind comes with no
\* error and no reply comes with an error
Faithful(e, res, kind) ==
    /\ res.err = e
    /\ e = Nil => res.reply.kind = kind
    /\ e # Nil => res.reply = NilReply

\* C14: Deploy, Delete, Update, ReplicaUpdate, GetMeta, GetLog, List and Info
\* return a reply (the marker "OK" or the payload) exactly when their backend
\* operation succeeded, and otherwise no reply and the backend's error.  A
\* handler's step is looked for among the steps that leave its name in last.
C14_BackendErrorSurfaces ==
    [][/\ last'.op = "Deploy"
            => \A n \in Names, img \in Images :
                 DeployRPC(n, img)
                    => /\ Faithful(ServiceDeploy(backend, backendUp, n, img).err, last', "msg")
                       /\ last'.err = Nil => last'.reply = Message("OK")
       /\ last'.op = "Delete"
            => \A n \in Names :
                 DeleteRPC(n)
                    => /\ Faithful(ServiceDelete(backend, backendUp, n).err, last', "msg")
                       /\ last'.err = Nil => last'.reply = Message("OK")
       /\ last'.op = "Update"
            => \A n \in Names, img \in Images :
                 UpdateRPC(n, img)
                    => /\ Faithful(ServiceUpdate(backend, backendUp, n, img).err, last', "msg")
                       /\ last'.err = Nil => last'.reply = Message("OK")
       /\ last'.op = "ReplicaUpdate"
            => \A n \in Names, k \in Replicas :
                 ReplicaUpdateRPC(n, k)
                    => /\ Faithful(ServiceReplicaUpdate(backend, backendUp, n, k).err,
                                   last', "msg")
                       /\ last'.err = Nil => last'.reply = Message("OK")
       /\ last'.op = "GetMeta"
            => \A n \in Names :
                 GetMetaRPC(n)
                    => Faithful(ServiceGetMeta(backend, backendUp, n).err, last', "fn")
       /\ last'.op = "GetLog"
            => \A n \in Names :
                 GetLogRPC(n)
                    => /\ Faithful(ServiceGetLog(backend, backendUp, n).err, last', "msg")
                       /\ last'.err = Nil
                             => last'.reply = Message(ServiceGetLog(backend, backendUp, n).msg)
       /\ (last'.op = "List" /\ ListRPC)
            => Faithful(ServiceList(backend, backendUp).err, last', "fns")
       /\ (last'.op = "Info" /\ InfoRPC)
            => /\ Faithful(ServiceInfo(backendUp).err, last', "msg")
               /\ last'.err = Nil => last'.reply = Message(ServiceInfo(backendUp).msg)]_vars

\* Info has failed with the backend's error and no reply
C14_Witness ==
    /\ last.op = "Info" /\ last.err = ErrUnavailable /\ last.reply = NilReply
    /\ ~backendUp

(***************************************************************************)
(* Properties of the process.                                              *)
(***************************************************************************)
\* C15: the process does not keep running while the accept loop of the
\* multiplexer, the serve loop of the RPC server or the serve loop of the
\* HTTP server has exited.
C15_NoLoopExitedWhileRunning ==
    proc.alive => /\ proc.accept = "running"
                  /\ proc.grpc = "running"
                  /\ proc.http = "running"

\* a server's serve loop that has exited has taken the process down
ServerLoopExitIsFatal ==
    (proc.grpc = "exited" \/ proc.http = "exited") => ~proc.alive

\* C16: an Invoke call issues exactly one call to the function's sidecar:
\* none before it has started, one from then on, and still one after the
\* sidecar call has failed or run into the timeout.
C16_OneSidecarCall ==
    \A c \in CallIds :
        /\ calls[c].st = "idle" => calls[c].sent = 0
        /\ calls[c].st \in {"waiting", "done"} => calls[c].sent = 1

\* one call has failed and another has run into the timeout, with one
\* sidecar call each
C16_Witness ==
    \E c, d \in CallIds :
        /\ calls[c].st = "done" /\ calls[c].sidecar = "fail"
        /\ calls[c].err = ErrFailed /\ calls[c].sent = 1
        /\ calls[d].st = "done" /\ calls[d].sidecar = "timeout"
        /\ calls[d].err = ErrTimeout /\ calls[d].sent = 1

\* C19: no step, a watcher tick included, changes the replica gauge of a
\* function that is absent from the backend: the gauge of a deleted function
\* keeps the value the watcher saw last.
C19_AbsentGaugeKept ==
    [][\A n \in Names :
         ~Has(backend, n) => metricsOptions'.replicas[n] = metricsOptions.replicas[n]]_vars

\* the watcher has ticked for the other function after this one was deleted,
\* and the gauge of the deleted one still shows its replicas
C19_Witness ==
    \E n, o \in Names :
        /\ n # o
        /\ ~Has(backend, n) /\ metricsOptions.replicas[n] = 2
        /\ Has(backend, o) /\ metricsOptions.replicas[o] = Count(backend, o)
        /\ last.op = "Deploy" /\ last.name = o /\ last.err = Nil

\* C18: however the Invoke calls and the watcher ticks interleave, the
\* success counter of a function, and the count of its histogram, is the
\* number of its Invoke calls that have completed successfully; a call that
\* waits for its sidecar can always return, whatever the other calls are
\* doing; and a watcher tick leaves every counter and histogram as it was.
C18_CanReturn ==
    \A c \in CallIds : calls[c].st = "waiting" => ENABLED InvokeReturn(c)

C18_CountsComplete ==
    \A n \in Names :
        /\ metricsOptions.invocation[n]["OK"] = Cardinality(Completed(n, {"ok"}))
        /\ metricsOptions.histogram[n].n = Cardinality(Completed(n, {"ok"}))

C18_NoLostIncrement ==
    /\ [](C18_CountsComplete /\ C18_CanReturn)
    /\ [][WatcherTick => /\ metricsOptions'.invocation = metricsOptions.invocation
                         /\ metricsOptions'.histogram = metricsOptions.histogram]_vars

\* two calls for the same function were under way together, and both have
\* completed successfully
C18_Witness ==
    /\ \A c \in CallIds : calls[c].st = "done" /\ calls[c].svc = "add"
                             /\ calls[c].sidecar = "ok" /\ calls[c].elapsed >= 1
    /\ metricsOptions.invocation["add"]["OK"] = MaxCalls

\* C17: a step that changes a replica gauge is a tick of the watcher, so no
\* handler changes one and a successful ReplicaUpdate leaves the gauge at its
\* old value; a step that changes the invocation counters or the histogram
\* of a function is the return of an Invoke call for that function.
C17_SingleWriters ==
    [][/\ metricsOptions'.replicas # metricsOptions.replicas
            => /\ WatcherTick
               /\ calls' = calls /\ last' = last /\ backend' = backend
       /\ last'.op = "ReplicaUpdate"
            => \A n \in Names, k \in Replicas :
                 ReplicaUpdateRPC(n, k)
                    => metricsOptions'.replicas = metricsOptions.replicas
       /\ \A n \in Names :
            (\/ metricsOptions'.invocation[n] # metricsOptions.invocation[n]
             \/ metricsOptions'.histogram[n] # metricsOptions.histogram[n])
               => \E c \in CallIds :
                    /\ InvokeReturn(c)
                    /\ calls[c].svc = n
                    /\ last' = last /\ backend' = backend]_vars

\* a ReplicaUpdate has succeeded and the gauge still shows the old count,
\* and an Invoke call for the same function has been counted
C17_Witness ==
    /\ last.op = "ReplicaUpdate" /\ last.err = Nil
    /\ Has(backend, last.name) /\ Count(backend, last.name) = 2
    /\ metricsOptions.replicas[last.name] = 1
    /\ metricsOptions.invocation[last.name]["OK"] = 1
=============================================================================
